---- MODULE Spec2Model ----
(***************************************************************************)
(* sidus: a converter for Yale Bright Star type catalogs (src/src/sidus.cpp)*)
(*                                                                         *)
(* The model follows main() from the point where the input file has been   *)
(* named: size checks, parseHeader, the header cross-checks, the record    *)
(* loop (parseStar, filters, std::multimap insert) and the output loop.    *)
(* Bytes are naturals 0..255, 32-bit integers keep their width, doubles    *)
(* are kept as their eight bytes, most significant first, and compared as  *)
(* IEEE-754 compares them.  A magnitude is kept in hundredths: the float   *)
(* (float)mag/100.0f is injective and monotone in the int16 mag, and the   *)
(* thresholds of the model (4.0 and DBL_MAX) are exact floats.             *)
(***************************************************************************)
EXTENDS Integers, Sequences, FiniteSets, TLC

VARIABLES
    data,           \* the file's bytes, data[1] is offset 0        (line 714)
    epochOpt,       \* Epoch epoch: "AUTO" | "J2000" | "B1950"     (line 567)
    endianOpt,      \* Endian endian: "AUTO" | "LITTLE" | "BIG"    (line 569)
    optA,           \* -a<n>: local apparentMagnitude              (line 565)
    filterMagnitude,\* -f<n>, in hundredths                        (line 566)
    cformat,        \* -c                                          (line 568)
    onlymeta,       \* -i                                          (line 571)
    sort,           \* "NO" | "MAG" | "RA"                         (line 572)
    usename,        \* -n                                          (line 573)
    inputfile,      \* the path, a sequence of character codes     (line 575)
    pc,             \* where main() is
    header,         \* Header header                               (line 720)
    i,              \* the record loop's counter                   (line 773)
    map,            \* std::multimap<double, Star>, its tree       (line 772)
    idx,            \* the output loop's counter                   (line 805)
    out,            \* what has been written to stdout
    status,         \* main's return value (139: killed by a signal)
    err,            \* the message written to stderr, "" when none
    decoded,        \* history: the stars parseStar produced, by record index
    reads,          \* history: the [from, to) byte ranges parseStar read
    cs,             \* sanitizeForC's argument                     (line 391)
    sres            \* sanitizeForC's results: <<>>, <<s1>>, <<s1, s2>>

vars == <<data, epochOpt, endianOpt, optA, filterMagnitude, cformat, onlymeta,
          sort, usename, inputfile, pc, header, i, map, idx, out, status, err,
          decoded, reads, cs, sres>>

inputs == <<data, epochOpt, endianOpt, optA, filterMagnitude, cformat, onlymeta,
            sort, inputfile>>

sanitizeVars == <<cs, sres>>

-----------------------------------------------------------------------------
(* Bounds of the model.                                                    *)

\* Most records a modelled catalog holds, and most iterations of the record
\* loop the model follows.
MaxStars == 4

\* Longest string handed to sanitizeForC.
MaxLen == 3

\* Longest star name (header.starNameLength) the model copies.
MaxNameLength == 4

-----------------------------------------------------------------------------
(* 32-bit and 16-bit integers.                                             *)

INT_MAX == 2147483647

INT_MIN == -2147483647 - 1

HeaderSize == 28

DBL_MAX == 32768

Int32Abs(v) == IF v < 0 THEN -v ELSE v

Min(a, b) == IF a < b THEN a ELSE b

\* A byte as a signed 8-bit value: the top byte of a two's complement integer.
S8(b) == IF b >= 128 THEN b - 256 ELSE b

\* parse(std::int32_t*, data, littleEndian): d is the four bytes in file order.
Parse32(d, littleEndian) ==
    IF littleEndian
    THEN d[1] + d[2] * 256 + d[3] * 65536 + S8(d[4]) * 16777216
    ELSE d[4] + d[3] * 256 + d[2] * 65536 + S8(d[1]) * 16777216

\* parse(std::int16_t*, data, littleEndian): d is the two bytes in file order.
Parse16(d, littleEndian) ==
    IF littleEndian
    THEN d[1] + S8(d[2]) * 256
    ELSE d[2] + S8(d[1]) * 256

\* parse(float*, ...) and parse(double*, ...): the bytes reassembled, most
\* significant byte first; the value is that bit pattern.
RECURSIVE Reverse(_)
Reverse(d) == IF d = <<>> THEN <<>> ELSE Reverse(Tail(d)) \o <<Head(d)>>

ParseBits(d, littleEndian) == IF littleEndian THEN Reverse(d) ELSE d

\* The four bytes of v in the given byte order (what a catalog writer stores).
Encode32(v, littleEndian) ==
    LET b0 == v % 256
        b1 == (v \div 256) % 256
        b2 == (v \div 65536) % 256
        b3 == (v \div 16777216) % 256
    IN IF littleEndian THEN <<b0, b1, b2, b3>> ELSE <<b3, b2, b1, b0>>

Encode16(v, littleEndian) ==
    LET b0 == v % 256
        b1 == (v \div 256) % 256
    IN IF littleEndian THEN <<b0, b1>> ELSE <<b1, b0>>

\* The 32-bit product of two unsigned 16-bit numbers as <<high 16, low 16>>.
MulU16(x, y) ==
    LET x0 == x % 256
        x1 == x \div 256
        y0 == y % 256
        y1 == y \div 256
        p01 == x0 * y1 + x1 * y0
        t == x0 * y0 + (p01 % 256) * 256
    IN <<x1 * y1 + (p01 \div 256) + (t \div 65536), t % 65536>>

\* a * b in int arithmetic as the machine's imul leaves it: modulo 2^32.
Mul32Wrap(a, b) ==
    LET al == a % 65536
        ah == (a \div 65536) % 65536
        bl == b % 65536
        bh == (b \div 65536) % 65536
        ll == MulU16(al, bl)
        hi == (ll[1] + MulU16(ah, bl)[2] + MulU16(al, bh)[2]) % 65536
    IN (IF hi >= 32768 THEN hi - 65536 ELSE hi) * 65536 + ll[2]

\* Whether the exact product a * b is an int.
Mul32Fits(a, b) ==
    IF a = 0 \/ b = 0 THEN TRUE
    ELSE IF a = INT_MIN THEN b = 1
    ELSE IF b = INT_MIN THEN a = 1
    ELSE LET x == Int32Abs(a)
             y == Int32Abs(b)
         IN IF y = 1 THEN TRUE
            ELSE IF (a < 0) = (b < 0)
            THEN x <= INT_MAX \div y
            ELSE x <= (INT_MAX \div y) + (IF INT_MAX % y = y - 1 THEN 1 ELSE 0)

\* Whether the exact sum a + b is an int.
Add32Fits(a, b) ==
    IF b >= 0 THEN a <= INT_MAX - b ELSE a >= INT_MIN - b

\* a + b in int arithmetic, modulo 2^32.
Add32Wrap(a, b) ==
    IF Add32Fits(a, b) THEN a + b
    ELSE IF b >= 0 THEN ((a - INT_MAX) + (b - 1)) + INT_MIN
    ELSE ((a - INT_MIN) + (b + 1)) + INT_MAX

\* std::abs(v) > 10.  std::abs(INT_MIN) overflows, which is undefined: a build
\* that negates gets INT_MIN (not > 10), one that tests the range of v gets
\* "greater".
AbsGreater10(v) == IF v = INT_MIN THEN {TRUE, FALSE} ELSE {Int32Abs(v) > 10}

\* -v in int arithmetic, modulo 2^32.
StdNeg(v) == IF v = INT_MIN THEN INT_MIN ELSE -v

\* std::abs(v) as the negation leaves it.
StdAbs(v) == IF v = INT_MIN THEN INT_MIN ELSE Int32Abs(v)

\* n < 1 for n = std::abs(..): a build may decide it from "abs is not
\* negative" (n == 0) or compare the stored INT_MIN.
AbsLessThan1(n) == IF n = INT_MIN THEN {TRUE, FALSE} ELSE {n < 1}

-----------------------------------------------------------------------------
(* The input buffer.                                                       *)

fileSize == Len(data)

\* The n bytes at offset off, all inside the buffer.
Bytes(off, n) == SubSeq(data, off + 1, off + n)

\* enum Header::StarId and enum Header::ProperMotion
NO_STAR_ID == 0
CATALOG_STAR_ID == 1
GSC_STAR_ID == 2
TYCHO_STAR_ID == 3
INTEGER_STAR_ID == 4
NO_PROPER_MOTION == 0
PROPER_MOTION == 1
RADIAL_VELOCITY == 2

\* Header header; before parseHeader has filled it in.
NoHeader ==
    [numStars |-> 0, starId |-> 0, starNameLength |-> 0, properMotion |-> 0,
     numMagnitudes |-> 0, apparentMagnitude |-> 0, numBytesPerStar |-> 0,
     epoch |-> "AUTO", littleEndian |-> FALSE]

-----------------------------------------------------------------------------
(* parseHeader                                                             *)

\* An epoch test that looks at the star count only.
IsJ2000ByStarCount(starn, nmag) == starn < 0

\* isJ2000 of parseHeader.
IsJ2000(starn, nmag) == starn < 0 \/ nmag < 0

\* A detection that does not retry in big-endian order.
DetectEndianNoRetry(endian, gtLE, gtBE) ==
    CASE endian = "AUTO" -> IF gtLE THEN "NONE" ELSE "LITTLE"
      [] endian = "LITTLE" -> IF gtLE THEN "NONE" ELSE "LITTLE"
      [] endian = "BIG" -> IF gtBE THEN "NONE" ELSE "BIG"

\* The byte order parseHeader settles on ("NONE": it returns -1), given what
\* the two std::abs(nmag) > 10 tests answer.
DetectEndian(endian, gtLE, gtBE) ==
    CASE endian = "AUTO" ->
            IF gtLE THEN (IF gtBE THEN "NONE" ELSE "BIG") ELSE "LITTLE"
      [] endian = "LITTLE" -> IF gtLE THEN "NONE" ELSE "LITTLE"
      [] endian = "BIG" -> IF gtBE THEN "NONE" ELSE "BIG"

\* What parseHeader prints when std::abs(nmag) > 10.
EndianMessage(endian) ==
    CASE endian = "LITTLE" -> "invalid header, maybe try big-endian?"
      [] endian = "BIG" -> "invalid header, maybe try little-endian?"
      [] OTHER -> "invalid header"

\* Whether the epoch the caller expects contradicts the header's.
EpochMismatch(epoch, isJ2000) ==
    \/ epoch = "J2000" /\ ~isJ2000
    \/ epoch = "B1950" /\ isJ2000

\* parseHeader(&header, data, epoch, endian): [rc, header].
parseHeader(epoch, endian, gtLE, gtBE) ==
    LET e == DetectEndian(endian, gtLE, gtBE)
        littleEndian == e = "LITTLE"
        nmag == Parse32(Bytes(20, 4), littleEndian)
        starn == Parse32(Bytes(8, 4), littleEndian)
        stnum == Parse32(Bytes(12, 4), littleEndian)
        mprop == Parse32(Bytes(16, 4), littleEndian)
        nbent == Parse32(Bytes(24, 4), littleEndian)
        isJ2000 == IsJ2000(starn, nmag)
    IN IF e = "NONE"
       THEN [rc |-> -1, header |-> NoHeader, err |-> EndianMessage(endian)]
       ELSE IF EpochMismatch(epoch, isJ2000)
       THEN [rc |-> -1, header |-> NoHeader,
             err |-> IF isJ2000 THEN "expected B1950 epoch but found J2000 epoch"
                     ELSE "expected J2000 epoch but found B1950 epoch"]
       ELSE [rc |-> 0, err |-> "",
             header |->
               [numStars |-> StdAbs(starn),
                starId |-> IF stnum < 0 THEN NO_STAR_ID ELSE stnum,
                starNameLength |-> IF stnum < 0 THEN StdNeg(stnum) ELSE 0,
                properMotion |-> mprop,
                numMagnitudes |-> StdAbs(nmag),
                apparentMagnitude |-> 0,
                numBytesPerStar |-> nbent,
                epoch |-> IF isJ2000 THEN "J2000" ELSE "B1950",
                littleEndian |-> littleEndian]]

-----------------------------------------------------------------------------
(* Doubles, as their eight bytes, most significant first.                  *)

DblZero == <<0, 0, 0, 0, 0, 0, 0, 0>>
FltZero == <<0, 0, 0, 0>>

DblIsNaN(b) ==
    /\ b[1] % 128 = 127
    /\ b[2] >= 240
    /\ (b[2] % 16 # 0 \/ \E k \in 3..8 : b[k] # 0)

\* b == 0.0 in C: true of +0.0 and of -0.0.
DblEqZero(b) == b[1] % 128 = 0 /\ \A k \in 2..8 : b[k] = 0

\* |a| < |b| for two doubles that are not NaN: the bytes below the sign bit
\* compare as an unsigned number.
DblAbsLess(a, b) ==
    LET am == [a EXCEPT ![1] = a[1] % 128]
        bm == [b EXCEPT ![1] = b[1] % 128]
    IN \E k \in 1..8 : (\A j \in 1..(k - 1) : am[j] = bm[j]) /\ am[k] < bm[k]

\* a < b in C: false when either is NaN, and -0.0 < +0.0 is false.
DblLess(a, b) ==
    /\ ~DblIsNaN(a)
    /\ ~DblIsNaN(b)
    /\ ~(DblEqZero(a) /\ DblEqZero(b))
    /\ IF a[1] >= 128
       THEN (b[1] < 128 \/ DblAbsLess(b, a))
       ELSE (b[1] < 128 /\ DblAbsLess(a, b))

-----------------------------------------------------------------------------
(* parseStar                                                               *)

\* The byte parseStar finds at offset off of a record that starts at base:
\* the buffer's byte, or, past the allocation, whatever the heap holds there.
RecByte(base, off, tail) ==
    IF base >= 0 /\ base < fileSize /\ off < fileSize - base
    THEN data[base + off + 1]
    ELSE tail

RECURSIVE RecBytes(_, _, _, _)
RecBytes(base, off, n, tail) ==
    IF n = 0 THEN <<>>
    ELSE <<RecByte(base, off, tail)>> \o RecBytes(base, off + 1, n - 1, tail)

HasStarId(h) ==
    h.starId \in {CATALOG_STAR_ID, GSC_STAR_ID, TYCHO_STAR_ID, INTEGER_STAR_ID}

HasMotion(h) == h.properMotion \in {PROPER_MOTION, RADIAL_VELOCITY}

\* parseStar's cursor after the identifier, and after the magnitudes.
CursorAfterId(h) == IF HasStarId(h) THEN 4 ELSE 0

CursorAtMagnitudes(h) == CursorAfterId(h) + 8 + 8 + 2

CursorAfterMagnitudes(h) ==
    CursorAtMagnitudes(h) + (IF h.numMagnitudes > 0 THEN 2 * h.numMagnitudes ELSE 0)

CursorAtName(h) == CursorAfterMagnitudes(h) + (IF HasMotion(h) THEN 8 ELSE 0)

\* Whether the magnitude loop assigns mag at all.
MagnitudeIsRead(h) ==
    h.apparentMagnitude >= 0 /\ h.apparentMagnitude < h.numMagnitudes

\* The bytes strncpy copies: up to n of them, stopping after a NUL.
RECURSIVE NameBytes(_, _, _, _)
NameBytes(base, off, n, tail) ==
    IF n = 0 \/ RecByte(base, off, tail) = 0 THEN <<>>
    ELSE <<RecByte(base, off, tail)>> \o NameBytes(base, off + 1, n - 1, tail)

\* The [from, to) ranges, relative to the record's start, parseStar reads.
StarReads(h, base, tail) ==
    LET nameLen == Len(NameBytes(base, CursorAtName(h), h.starNameLength, tail))
    IN (IF HasStarId(h) THEN <<<<0, 4>>>> ELSE <<>>)
       \o <<<<CursorAfterId(h), CursorAfterId(h) + 8>>,
            <<CursorAfterId(h) + 8, CursorAfterId(h) + 16>>,
            <<CursorAfterId(h) + 16, CursorAfterId(h) + 18>>>>
       \o (IF MagnitudeIsRead(h)
           THEN <<<<CursorAtMagnitudes(h) + 2 * h.apparentMagnitude,
                    CursorAtMagnitudes(h) + 2 * h.apparentMagnitude + 2>>>>
           ELSE <<>>)
       \o (IF HasMotion(h)
           THEN <<<<CursorAfterMagnitudes(h), CursorAfterMagnitudes(h) + 8>>>>
           ELSE <<>>)
       \o (IF h.starNameLength > 0
           THEN <<<<CursorAtName(h),
                    CursorAtName(h) + Min(h.starNameLength, nameLen + 1)>>>>
           ELSE <<>>)

\* Whether some byte parseStar reads lies outside the buffer.
ReadsOutside(h, base, tail) ==
    LET ranges == StarReads(h, base, tail)
    IN \/ base < 0
       \/ base >= fileSize
       \/ \E k \in 1..Len(ranges) : ranges[k][2] > fileSize - base

\* parseStar(&star, header, data + base); uninit is what the never assigned
\* mag holds when the magnitude loop does not reach apparentMagnitude.
parseStar(h, base, tail, uninit) ==
    LET le == h.littleEndian
        c1 == CursorAfterId(h)
        mag == IF MagnitudeIsRead(h)
               THEN Parse16(RecBytes(base, CursorAtMagnitudes(h)
                                           + 2 * h.apparentMagnitude, 2, tail), le)
               ELSE uninit
    IN [name |-> IF h.starNameLength > 0
                 THEN NameBytes(base, CursorAtName(h), h.starNameLength, tail)
                 ELSE <<>>,
        rightAscension |-> ParseBits(RecBytes(base, c1, 8, tail), le),
        declination |-> ParseBits(RecBytes(base, c1 + 8, 8, tail), le),
        starId |-> IF HasStarId(h)
                   THEN [kind |-> IF h.starId = INTEGER_STAR_ID THEN "int" ELSE "float",
                         bits |-> ParseBits(RecBytes(base, 0, 4, tail), le)]
                   ELSE [kind |-> "none", bits |-> FltZero],
        magnitude |-> mag,
        properMotion |->
            IF h.properMotion = PROPER_MOTION
            THEN [rightAscension |->
                      ParseBits(RecBytes(base, CursorAfterMagnitudes(h), 4, tail), le),
                  declination |->
                      ParseBits(RecBytes(base, CursorAfterMagnitudes(h) + 4, 4, tail), le)]
            ELSE [rightAscension |-> FltZero, declination |-> FltZero],
        radialVelocity |->
            IF h.properMotion = RADIAL_VELOCITY
            THEN ParseBits(RecBytes(base, CursorAfterMagnitudes(h), 8, tail), le)
            ELSE DblZero,
        spectralType |-> RecBytes(base, c1 + 16, 2, tail)]

-----------------------------------------------------------------------------
(* The record loop's filters and the std::multimap.                        *)

\* The two `continue`s of the record loop.
TooFaint(star, threshold) == star.magnitude > threshold

IsInvalidEntry(star) ==
    /\ star.magnitude = 0
    /\ DblEqZero(star.rightAscension)
    /\ DblEqZero(star.declination)

\* A record loop with the threshold filter only.
DroppedIfFaint(star, threshold) == TooFaint(star, threshold)

\* Whether the record loop skips the record (either continue).
Dropped(star, threshold) == TooFaint(star, threshold) \/ IsInvalidEntry(star)

\* The key of the switch (sort): a double in each case.
SortKey(policy, star, index) ==
    CASE policy = "RA" -> star.rightAscension
      [] policy = "MAG" -> star.magnitude
      [] OTHER -> index

\* std::less<double> on two keys of the policy.
KeyLess(policy, a, b) == IF policy = "RA" THEN DblLess(a, b) ELSE a < b

\* The std::multimap is a red-black tree: <<>> is the empty tree and a node
\* is <<color, left, entry, right>>.  The comparison of keys is the only thing
\* that places an entry, whether or not the keys are ordered by it (NaN keys
\* are not).
IsRed(t) == t # <<>> /\ t[1] = "red"

Blacken(t) == <<"black", t[2], t[3], t[4]>>

\* The fix-up at a black node after an insertion below it: a red child with a
\* red child is recoloured when the other child is red too, and rotated to
\* the top otherwise.
Rebalance(g) ==
    LET l == g[2]
        r == g[4]
    IN IF g[1] = "red" THEN g
       ELSE IF IsRed(l) /\ (IsRed(l[2]) \/ IsRed(l[4]))
       THEN IF IsRed(r) THEN <<"red", Blacken(l), g[3], Blacken(r)>>
            ELSE IF IsRed(l[2])
            THEN <<"black", l[2], l[3], <<"red", l[4], g[3], r>>>>
            ELSE <<"black", <<"red", l[2], l[3], l[4][2]>>, l[4][3],
                   <<"red", l[4][4], g[3], r>>>>
       ELSE IF IsRed(r) /\ (IsRed(r[2]) \/ IsRed(r[4]))
       THEN IF IsRed(l) THEN <<"red", Blacken(l), g[3], Blacken(r)>>
            ELSE IF IsRed(r[4])
            THEN <<"black", <<"red", l, g[3], r[2]>>, r[3], r[4]>>
            ELSE <<"black", <<"red", l, g[3], r[2][2]>>, r[2][3],
                   <<"red", r[2][4], r[3], r[4]>>>>
       ELSE g

\* The walk of insert: left where the new key is less than the node's, right
\* otherwise, down to an empty place; then the fix-up on the way back.
RECURSIVE InsertBelow(_, _, _)
InsertBelow(policy, t, e) ==
    IF t = <<>> THEN <<"red", <<>>, e, <<>>>>
    ELSE IF KeyLess(policy, e.key, t[3].key)
    THEN Rebalance(<<t[1], InsertBelow(policy, t[2], e), t[3], t[4]>>)
    ELSE Rebalance(<<t[1], t[2], t[3], InsertBelow(policy, t[4], e)>>)

\* map.insert(std::make_pair(key, star))
MapInsert(policy, t, e) == Blacken(InsertBelow(policy, t, e))

\* The entries in the order the range-for visits them.
RECURSIVE MapEntries(_)
MapEntries(t) ==
    IF t = <<>> THEN <<>> ELSE MapEntries(t[2]) \o <<t[3]>> \o MapEntries(t[4])

MapSize(t) == Len(MapEntries(t))

-----------------------------------------------------------------------------
(* sanitizeForC                                                            *)

ToLower(c) == IF c \in 65..90 THEN c + 32 ELSE c

\* isalpha and isalnum in the "C" locale (the program never sets another):
\* no character outside ASCII is a letter.
IsAlpha(c) == c \in 65..90 \/ c \in 97..122

IsAlnum(c) == IsAlpha(c) \/ c \in 48..57

\* A sanitizer that lets a digit stand first.
sanitizeForCAlnumFirst(str) ==
    [k \in 1..Len(str) |->
        LET c == ToLower(str[k])
        IN IF k = 1
           THEN (IF IsAlnum(c) THEN c ELSE 120)
           ELSE (IF IsAlnum(c) THEN c ELSE 95)]

\* sanitizeForC: one output character per input character.
sanitizeForC(str) ==
    [k \in 1..Len(str) |->
        LET c == ToLower(str[k])
        IN IF k = 1
           THEN (IF IsAlpha(c) THEN c ELSE 120)
           ELSE (IF IsAlnum(c) THEN c ELSE 95)]

-----------------------------------------------------------------------------
(* What is written to stdout.                                              *)

NoStar ==
    [name |-> <<>>, rightAscension |-> DblZero, declination |-> DblZero,
     starId |-> [kind |-> "none", bits |-> FltZero], magnitude |-> 0,
     properMotion |-> [rightAscension |-> FltZero, declination |-> FltZero],
     radialVelocity |-> DblZero, spectralType |-> <<0, 0>>]

\* The catalog information of -i.
MetaOutput(h) == [kind |-> "meta", var |-> <<>>, n |-> h.numStars, star |-> NoStar]

\* printCHeader(inputfile, map.size(), ...)
CHeaderOutput(file, n) ==
    [kind |-> "cheader", var |-> sanitizeForC(file), n |-> n, star |-> NoStar]

\* print(star, header, idx, cformat, ...): an array entry or a text line.
StarOutput(star, index, c, names) ==
    [kind |-> IF c THEN "entry" ELSE "line", var |-> <<>>, n |-> index,
     star |-> IF names THEN star ELSE [star EXCEPT !.name = <<>>]]

CFooterOutput == [kind |-> "cfooter", var |-> <<>>, n |-> 0, star |-> NoStar]

RecordOutputKinds == {"cheader", "entry", "line", "cfooter"}

-----------------------------------------------------------------------------
(* Input catalogs.                                                         *)

\* Doubles a modelled record holds: 0.0, -0.0, 0.5, 1.0, 2.0 and a NaN.
DblNegZero == <<128, 0, 0, 0, 0, 0, 0, 0>>
DblHalf == <<63, 224, 0, 0, 0, 0, 0, 0>>
DblOne == <<63, 240, 0, 0, 0, 0, 0, 0>>
DblTwo == <<64, 0, 0, 0, 0, 0, 0, 0>>
DblNaN == <<127, 248, 0, 0, 0, 0, 0, 0>>

\* Bit patterns are stored in the file's byte order: the inverse of ParseBits.
EncodeBits(b, littleEndian) == ParseBits(b, littleEndian)

RECURSIVE Concat(_)
Concat(ss) == IF ss = <<>> THEN <<>> ELSE Head(ss) \o Concat(Tail(ss))

\* The 28 header bytes of a catalog written in one byte order.
EncodeHeader(starn, stnum, mprop, nmag, nbent, littleEndian) ==
    Concat([k \in 1..7 |->
        Encode32(<<0, 0, starn, stnum, mprop, nmag, nbent>>[k], littleEndian)])

\* A record without identifier, motion or name: ra, dec, spectral type and
\* the first nmag magnitudes of mags.
EncodeRecord(t, nmag, littleEndian) ==
    EncodeBits(t.ra, littleEndian) \o EncodeBits(t.dec, littleEndian) \o t.sp
    \o Concat([k \in 1..nmag |-> Encode16(t.mags[k], littleEndian)])

\* The records of the modelled catalogs.  Two share a first magnitude; one
\* has a NaN right ascension; the last is a padding entry (all zero under its
\* first magnitude, with a negative zero).
Templates ==
    {[ra |-> DblTwo, dec |-> DblHalf, sp |-> <<65, 48>>, mags |-> <<100, 450>>],
     [ra |-> DblNaN, dec |-> DblHalf, sp |-> <<66, 48>>, mags |-> <<450, 100>>],
     [ra |-> DblOne, dec |-> DblNegZero, sp |-> <<67, 48>>, mags |-> <<450, 400>>],
     [ra |-> DblNegZero, dec |-> DblZero, sp |-> <<0, 0>>, mags |-> <<0, 100>>]}

RECURSIVE SeqsUpTo(_, _)
SeqsUpTo(S, n) ==
    IF n = 0 THEN {<<>>}
    ELSE SeqsUpTo(S, n - 1)
         \cup {Append(q, x) : q \in {r \in SeqsUpTo(S, n - 1) : Len(r) = n - 1}, x \in S}

\* Header words <<starn, stnum, mprop, nmag, nbent>> of the modelled files:
\* counts with either sign, INT_MIN and a count whose product with the stride
\* overflows; magnitude counts around the byte-order bound of 10; strides
\* that fit, that are short, zero or negative; id-spec and motion flag inside
\* and outside the enums.
StarCounts == {0, 1, 2, -2, 65536, INT_MIN}
MagnitudeCounts == {0, 1, -1, 2, 10, -10, 11, -11, INT_MIN, 16843009}
Strides == {0, 20, 23, -1, 65536}
IdMotionPairs == {<<0, 0>>, <<-3, 0>>, <<1, 1>>, <<4, 2>>, <<7, 0>>, <<0, 3>>}

HeaderWords ==
    {<<starn, 0, 0, nmag, nbent>> :
        starn \in StarCounts, nmag \in MagnitudeCounts, nbent \in Strides}
    \cup {<<starn, im[1], im[2], nmag, nbent>> :
            starn \in {2, -2}, im \in IdMotionPairs, nmag \in {1, -1},
            nbent \in {20, 23}}

\* Runs <<magnitude count, -a, -c, path, -f, ordering>> over the catalogs
\* below: every threshold with every ordering on one magnitude per record,
\* and the -a and -c options on two.
FilePaths == {<<66, 83, 67, 53>>, <<53, 46, 66>>}
OutputOptions ==
    {<<1, -1, FALSE, <<66, 83, 67, 53>>, f, s>> : f \in {DBL_MAX, 400}, s \in {"NO", "MAG", "RA"}}
    \cup {<<2, 0, TRUE, <<53, 46, 66>>, DBL_MAX, "RA">>,
          <<2, 0, TRUE, <<53, 46, 66>>, 400, "MAG">>,
          <<2, 1, FALSE, <<66, 83, 67, 53>>, 400, "NO">>,
          <<1, 0, TRUE, <<53, 46, 66>>, DBL_MAX, "MAG">>}

\* Files with every header above, followed by two records of 20 bytes, each
\* with a three letter name after it.
InitHeaders ==
    \E le \in BOOLEAN, w \in HeaderWords :
        /\ data = EncodeHeader(w[1], w[2], w[3], w[4], w[5], le)
                  \o EncodeRecord([ra |-> DblTwo, dec |-> DblHalf,
                                   sp |-> <<65, 48>>, mags |-> <<100>>], 1, le)
                  \o <<65, 66, 67>>
                  \o EncodeRecord([ra |-> DblOne, dec |-> DblHalf,
                                   sp |-> <<67, 48>>, mags |-> <<450>>], 1, le)
                  \o <<68, 69, 70>>
        /\ epochOpt \in {"AUTO", "J2000", "B1950"}
        /\ endianOpt \in {"AUTO", "LITTLE", "BIG"}
        /\ onlymeta \in BOOLEAN
        /\ optA = -1
        /\ filterMagnitude = DBL_MAX
        /\ cformat = FALSE
        /\ sort = "NO"
        /\ usename = TRUE
        /\ inputfile = <<66, 83, 67, 53>>

\* Well-formed little-endian catalogs of up to MaxStars records with one or
\* two magnitudes each.
InitCatalogs ==
    \E recs \in SeqsUpTo(Templates, MaxStars), o \in OutputOptions :
        /\ data = EncodeHeader(Len(recs), 0, 0, o[1], 18 + 2 * o[1], TRUE)
                  \o Concat([k \in 1..Len(recs) |-> EncodeRecord(recs[k], o[1], TRUE)])
        /\ epochOpt = "AUTO"
        /\ endianOpt = "AUTO"
        /\ onlymeta = FALSE
        /\ optA = o[2]
        /\ filterMagnitude = o[5]
        /\ cformat = o[3]
        /\ sort = o[6]
        /\ usename = FALSE
        /\ inputfile = o[4]

\* Files too short to hold a header.
InitShort ==
    /\ data \in {<<>>, [k \in 1..(HeaderSize - 1) |-> 0]}
    /\ epochOpt = "AUTO"
    /\ endianOpt = "AUTO"
    /\ onlymeta \in BOOLEAN
    /\ optA = -1
    /\ filterMagnitude = DBL_MAX
    /\ cformat \in BOOLEAN
    /\ sort = "NO"
    /\ usename = FALSE
    /\ inputfile = <<66, 83, 67, 53>>

Init ==
    /\ (InitHeaders \/ InitCatalogs \/ InitShort)
    /\ pc = "start"
    /\ header = NoHeader
    /\ i = 0
    /\ map = <<>>
    /\ idx = 0
    /\ out = <<>>
    /\ status = 0
    /\ decoded = <<>>
    /\ reads = <<>>
    /\ cs = <<>>
    /\ sres = <<>>
    /\ err = ""

-----------------------------------------------------------------------------
(* main                                                                    *)

Fail(message) ==
    /\ pc' = "failed"
    /\ status' = -1
    /\ err' = message

\* A signal ends the process: a trap on signed overflow, a fault on a read
\* outside the allocation.
Crash ==
    /\ pc' = "crashed"
    /\ status' = 139
    /\ err' = err

\* if (filesize == 0) ...; if (filesize < 28) ...
CheckSize ==
    /\ pc = "start"
    /\ IF fileSize = 0 THEN Fail("empty")
       ELSE IF fileSize < HeaderSize THEN Fail("no header")
       ELSE pc' = "read" /\ UNCHANGED <<status, err>>
    /\ UNCHANGED <<inputs, usename, header, i, map, idx, out, decoded, reads, sanitizeVars>>

\* readFile(data.get(), inputfile, filesize)
ReadFile ==
    /\ pc = "read"
    /\ \/ pc' = "header" /\ UNCHANGED <<status, err>>
       \/ Fail("failed to read file")
    /\ UNCHANGED <<inputs, usename, header, i, map, idx, out, decoded, reads, sanitizeVars>>

\* if (parseHeader(&header, data.get(), epoch, endian) != 0) return -1;
ParseHeader ==
    /\ pc = "header"
    /\ \E gtLE \in AbsGreater10(Parse32(Bytes(20, 4), TRUE)),
          gtBE \in AbsGreater10(Parse32(Bytes(20, 4), FALSE)) :
        LET r == parseHeader(epochOpt, endianOpt, gtLE, gtBE)
        IN IF r.rc # 0
           THEN Fail(r.err) /\ header' = header
           ELSE pc' = "check" /\ UNCHANGED <<status, err>> /\ header' = r.header
    /\ UNCHANGED <<inputs, usename, i, map, idx, out, decoded, reads, sanitizeVars>>

\* header.apparentMagnitude = std::min(header.numMagnitudes - 1, header.numMagnitudes)
ApparentMagnitude(n) == IF n = INT_MIN THEN {INT_MIN, INT_MAX} ELSE {Min(n - 1, n)}

\* header.numStars*header.numBytesPerStar and 28 + starDataSize, in int.
StarDataSize(h) == Mul32Wrap(h.numStars, h.numBytesPerStar)

SizeOverflows(h) ==
    \/ ~Mul32Fits(h.numStars, h.numBytesPerStar)
    \/ ~Add32Fits(HeaderSize, StarDataSize(h))

\* filesize < (28 + starDataSize): the int converts to size_t, a negative one
\* to more than any file size.
FileTooShort(h) ==
    LET needed == Add32Wrap(HeaderSize, StarDataSize(h))
    IN needed < 0 \/ fileSize < needed

\* The header cross-checks of main, up to if (onlymeta).
CheckHeader ==
    /\ pc = "check"
    /\ \/ /\ SizeOverflows(header)
          /\ Crash
          /\ UNCHANGED <<header, usename>>
       \/ \E lessThan1 \in AbsLessThan1(header.numMagnitudes),
             am \in ApparentMagnitude(header.numMagnitudes) :
            IF FileTooShort(header)
            THEN Fail("file too short") /\ UNCHANGED <<header, usename>>
            ELSE IF lessThan1
            THEN Fail("expected at least one magnitude per star")
                 /\ UNCHANGED <<header, usename>>
            ELSE /\ header' = [header EXCEPT !.apparentMagnitude = am]
                 /\ usename' = (usename /\ header.starNameLength # 0)
                 /\ pc' = IF onlymeta THEN "meta" ELSE "loop"
                 /\ UNCHANGED <<status, err>>
    /\ UNCHANGED <<inputs, i, map, idx, out, decoded, reads, sanitizeVars>>

\* if (onlymeta) { fprintf(stdout, "Catalog information: ..."); return 0; }
PrintMeta ==
    /\ pc = "meta"
    /\ out' = Append(out, MetaOutput(header))
    /\ pc' = "done"
    /\ status' = 0
    /\ UNCHANGED <<inputs, usename, header, i, map, idx, err, decoded, reads, sanitizeVars>>

\* main's cursor at record index: 28, then += header.numBytesPerStar.
RECURSIVE Cursor(_, _)
Cursor(h, index) ==
    IF index = 0 THEN HeaderSize
    ELSE Add32Wrap(Cursor(h, index - 1), h.numBytesPerStar)

\* What the heap holds past the buffer, and what an unassigned mag holds.
TailBytes == {0, 255}
TailChoices(h, base) ==
    IF \E t \in TailBytes : ReadsOutside(h, base, t) THEN TailBytes ELSE {0}
UninitMagnitudes(h) == IF MagnitudeIsRead(h) THEN {0} ELSE {0, 450}

\* A loop that stops one record early.
LoopDoneOneEarly(index, h) == ~(index + 1 < h.numStars)

\* Whether the record loop has run through its numStars iterations.
LoopDone(index, h) == ~(index < h.numStars)

\* One iteration of the record loop: parseStar, the two filters, map.insert.
DecodeStar ==
    /\ pc = "loop"
    /\ ~LoopDone(i, header)
    /\ i < MaxStars
    /\ header.starNameLength <= MaxNameLength
    /\ \E base \in {Cursor(header, i)} :
         \E tail \in TailChoices(header, base), uninit \in UninitMagnitudes(header) :
           \/ /\ ReadsOutside(header, base, tail)
              /\ Crash
              /\ UNCHANGED <<i, map, decoded, reads>>
           \/ \E star \in {parseStar(header, base, tail, uninit)} :
                /\ decoded' = Append(decoded, star)
                /\ reads' = Append(reads, [base |-> base,
                                           ranges |-> StarReads(header, base, tail)])
                /\ i' = i + 1
                /\ map' = IF Dropped(star, filterMagnitude) THEN map
                          ELSE MapInsert(sort, map, [key |-> SortKey(sort, star, i),
                                                     star |-> star, src |-> i])
                /\ UNCHANGED <<pc, status, err>>
    /\ UNCHANGED <<inputs, usename, header, idx, out, sanitizeVars>>

\* After the loop: if (cformat) printCHeader(inputfile, map.size(), ...)
EndLoop ==
    /\ pc = "loop"
    /\ LoopDone(i, header)
    /\ out' = IF cformat THEN Append(out, CHeaderOutput(inputfile, MapSize(map))) ELSE out
    /\ idx' = 0
    /\ pc' = "print"
    /\ UNCHANGED <<inputs, usename, header, i, map, status, err, decoded, reads, sanitizeVars>>

\* for (auto const & pair : map) print(pair.second, header, idx++, ...)
PrintStar ==
    /\ pc = "print"
    /\ idx < MapSize(map)
    /\ out' = Append(out, StarOutput(MapEntries(map)[idx + 1].star, idx, cformat, usename))
    /\ idx' = idx + 1
    /\ UNCHANGED <<inputs, usename, header, i, map, pc, status, err, decoded, reads, sanitizeVars>>

\* if (cformat) printCFooter(); and main returns 0.
Finish ==
    /\ pc = "print"
    /\ idx = MapSize(map)
    /\ out' = IF cformat THEN Append(out, CFooterOutput) ELSE out
    /\ pc' = "done"
    /\ status' = 0
    /\ UNCHANGED <<inputs, usename, header, i, map, idx, err, decoded, reads, sanitizeVars>>

Next ==
    \/ CheckSize
    \/ ReadFile
    \/ ParseHeader
    \/ CheckHeader
    \/ PrintMeta
    \/ DecodeStar
    \/ EndLoop
    \/ PrintStar
    \/ Finish

Spec == Init /\ [][Next]_vars

-----------------------------------------------------------------------------
(* sanitizeForC on its own: the path, then its own result.                 *)

\* 'A', 'b', '5', '_', '.', and a character outside ASCII.
Alphabet == {65, 98, 53, 95, 46, 233}

InitSanitize ==
    /\ cs \in SeqsUpTo(Alphabet, MaxLen)
    /\ sres = <<>>
    /\ pc = "sanitize"
    /\ data = <<>>
    /\ epochOpt = "AUTO"
    /\ endianOpt = "AUTO"
    /\ optA = -1
    /\ filterMagnitude = DBL_MAX
    /\ cformat = TRUE
    /\ onlymeta = FALSE
    /\ sort = "NO"
    /\ usename = FALSE
    /\ inputfile = cs
    /\ header = NoHeader
    /\ i = 0
    /\ map = <<>>
    /\ idx = 0
    /\ out = <<>>
    /\ status = 0
    /\ err = ""
    /\ decoded = <<>>
    /\ reads = <<>>

\* One call of sanitizeForC.  std::tolower and isalpha are undefined for a
\* negative char (a byte above 127 where char is signed): a library either
\* answers "no letter" or stops the program.
Sanitize ==
    /\ pc = "sanitize"
    /\ Len(sres) < 2
    /\ LET arg == IF sres = <<>> THEN cs ELSE sres[1]
       IN \/ /\ \E k \in 1..Len(arg) : arg[k] >= 128
             /\ Crash
             /\ sres' = sres
          \/ /\ sres' = Append(sres, sanitizeForC(arg))
             /\ UNCHANGED <<pc, status, err>>
    /\ UNCHANGED <<inputs, usename, header, i, map, idx, out, decoded, reads, cs>>

NextSanitize == Sanitize

SpecSanitize == InitSanitize /\ [][NextSanitize]_vars

-----------------------------------------------------------------------------
(* Properties.                                                             *)

\* parseHeader has returned.
AfterParseHeader ==
    /\ pc \notin {"start", "read", "header"}
    /\ err \notin {"empty", "no header", "failed to read file"}

\* parseHeader returned 0 and filled in the header.
HeaderAccepted == AfterParseHeader /\ header.epoch # "AUTO"

\* The run is past the header stage: it prints the summary or decodes records.
PastHeaderStage == pc \in {"meta", "loop", "print", "done"}

\* The record loop has ended.
LoopFinished == pc = "print" \/ (pc = "done" /\ ~onlymeta)

\* The header word at offset off in the byte order the header was read in.
Word(off) == Parse32(Bytes(off, 4), header.littleEndian)

\* The sign bit of the header word at offset off, read in the given order.
SignBit(off, littleEndian) ==
    (IF littleEndian THEN data[off + 4] ELSE data[off + 1]) >= 128

\* 28 + |starn| * nbent <= fileSize over the integers, nbent unsigned.
ExactRegionFits ==
    LET starn == Word(8)
        nbent == Word(24)
    IN IF starn = 0 \/ nbent = 0 THEN HeaderSize <= fileSize
       ELSE IF nbent < 0 \/ starn = INT_MIN THEN FALSE
       ELSE Int32Abs(starn) <= (fileSize - HeaderSize) \div nbent

\* C1: a run that gets past the header stage has a header with
\* magnitudeCount >= 1 and 28 + starCount*bytesPerRecord <= fileSize, the
\* product and the sum taken over the integers.
C1_HeaderInvariant ==
    PastHeaderStage => (header.numMagnitudes >= 1 /\ ExactRegionFits)

\* C2, as claimed: under endianness hint Auto (and no epoch hint), a
\* magnitude count v with |v| <= 10 written in byte order E makes parseHeader
\* succeed with header.littleEndian = (E = little).
C2_AutoRecoversByteOrder ==
    (AfterParseHeader /\ endianOpt = "AUTO" /\ epochOpt = "AUTO") =>
        \A le \in BOOLEAN :
            LET v == Parse32(Bytes(20, 4), le)
            IN (v \in -10..10 /\ Bytes(20, 4) = Encode32(v, le))
               => (HeaderAccepted /\ header.littleEndian = le)

\* The four bytes of v are the same in both byte orders (v = 0 and v = -1).
SameInBothOrders(v) == Encode32(v, TRUE) = Encode32(v, FALSE)

\* C2, amended: under endianness hint Auto, a magnitude count v with
\* |v| <= 10 written in byte order E makes parseHeader adopt E when the bytes
\* of v differ between the orders and little-endian when they do not; it
\* succeeds unless the epoch hint contradicts the header's epoch, and then
\* it fails.
C2_AutoRecoversDistinctByteOrder ==
    (AfterParseHeader /\ endianOpt = "AUTO") =>
        \A le \in BOOLEAN :
            LET v == Parse32(Bytes(20, 4), le)
                order == le \/ SameInBothOrders(v)
                found == IF SignBit(8, order) \/ v < 0 THEN "J2000" ELSE "B1950"
            IN (v \in -10..10 /\ Bytes(20, 4) = Encode32(v, le))
               => IF epochOpt \in {"AUTO", found}
                  THEN HeaderAccepted /\ header.littleEndian = order
                  ELSE ~HeaderAccepted

\* C2's case: a big-endian magnitude count of 2, detected as big-endian.
C2_Witness ==
    /\ HeaderAccepted
    /\ endianOpt = "AUTO"
    /\ Bytes(20, 4) = Encode32(2, FALSE)
    /\ ~header.littleEndian

\* Whether a decoded record passes both filters of the record loop.
Survives(r) ==
    /\ ~(r.magnitude > filterMagnitude)
    /\ ~(r.magnitude = 0 /\ DblEqZero(r.rightAscension) /\ DblEqZero(r.declination))

StripName(star) == [star EXCEPT !.name = <<>>]

\* The entries of the map in the order the output loop visits them.
Emitted == MapEntries(map)

\* The positions of out that hold a text line or an array entry.
StarItems == {k \in 1..Len(out) : out[k].kind \in {"entry", "line"}}

\* C3: after the record loop the records handed to the serializer are
\* exactly the decoded records that are neither fainter than the threshold
\* nor all zero, each once; no all-zero record is ever written.
C3_SerializerGetsSurvivors ==
    /\ LoopFinished =>
        /\ Len(decoded) = (IF header.numStars > 0 THEN header.numStars ELSE 0)
        /\ \A k \in 1..Len(decoded) :
             Cardinality({m \in 1..Len(Emitted) : Emitted[m].src = k - 1})
               = (IF Survives(decoded[k]) THEN 1 ELSE 0)
        /\ \A m \in 1..Len(Emitted) :
             /\ Emitted[m].src \in 0..(Len(decoded) - 1)
             /\ Emitted[m].star = decoded[Emitted[m].src + 1]
        /\ \A k \in StarItems :
             StripName(out[k].star) = StripName(Emitted[out[k].n + 1].star)
        /\ pc = "done" => Cardinality(StarItems) = Len(Emitted)
    /\ \A k \in StarItems :
         ~(/\ out[k].star.magnitude = 0
           /\ DblEqZero(out[k].star.rightAscension)
           /\ DblEqZero(out[k].star.declination))

\* C3's case: a finished run without threshold that decoded an all-zero
\* record, dropped it and wrote another.
C3_Witness ==
    /\ pc = "done"
    /\ filterMagnitude = DBL_MAX
    /\ StarItems # {}
    /\ \E k \in 1..Len(decoded) :
         /\ decoded[k].magnitude = 0
         /\ DblEqZero(decoded[k].rightAscension)
         /\ DblEqZero(decoded[k].declination)

\* The order of the policy between two entries of the map, restated on the
\* records: strictly before, and equal keys.
KeyBefore(a, b) ==
    CASE sort = "RA" -> DblLess(a.star.rightAscension, b.star.rightAscension)
      [] sort = "MAG" -> a.star.magnitude < b.star.magnitude
      [] OTHER -> a.src < b.src

KeySame(a, b) ==
    CASE sort = "RA" ->
            /\ ~DblIsNaN(a.star.rightAscension)
            /\ ~DblIsNaN(b.star.rightAscension)
            /\ ~DblLess(a.star.rightAscension, b.star.rightAscension)
            /\ ~DblLess(b.star.rightAscension, a.star.rightAscension)
      [] sort = "MAG" -> a.star.magnitude = b.star.magnitude
      [] OTHER -> a.src = b.src

\* C4: the emitted sequence is sorted by the policy's key, survivors with
\* equal keys are emitted in increasing record index, and the output indices
\* are 0, 1, 2, ... in emission order.
C4_SortedAndStable ==
    LoopFinished =>
        /\ \A a, b \in 1..Len(Emitted) :
             a < b =>
               /\ ~KeyBefore(Emitted[b], Emitted[a])
               /\ (KeySame(Emitted[a], Emitted[b]) => Emitted[a].src < Emitted[b].src)
        /\ \A k \in StarItems :
             out[k].n = Cardinality({j \in StarItems : j < k})

\* C5: a header whose id-spec is above 4, or whose motion flag is outside
\* 0..2, does not get past the header stage, and an accepted header has its
\* idKind and motionKind inside the enums.  (An id-spec of 0, which the code
\* takes as NO_STAR_ID, is let through here.)
C5_SelectorsInRange ==
    PastHeaderStage =>
        /\ Word(12) <= 4
        /\ Word(16) \in 0..2
        /\ header.starId \in {NO_STAR_ID, CATALOG_STAR_ID, GSC_STAR_ID,
                              TYCHO_STAR_ID, INTEGER_STAR_ID}
        /\ header.properMotion \in {NO_PROPER_MOTION, PROPER_MOTION, RADIAL_VELOCITY}

\* C6: with magnitudeCount >= 1, the kept magnitude is the one at index
\* min(a, magnitudeCount - 1) for a selector a, and at magnitudeCount - 1
\* without one.
C6_SelectorIsClamped ==
    (PastHeaderStage /\ header.numMagnitudes >= 1) =>
        LET index == IF optA >= 0 THEN Min(optA, header.numMagnitudes - 1)
                     ELSE header.numMagnitudes - 1
        IN /\ header.apparentMagnitude = index
           /\ \A k \in 1..Len(decoded) :
                LET at == Cursor(header, k - 1) + CursorAtMagnitudes(header) + 2 * index
                IN (at >= 0 /\ at + 2 <= fileSize)
                   => decoded[k].magnitude = Parse16(Bytes(at, 2), header.littleEndian)

\* C7: an accepted header's epoch is J2000 exactly when the star count or
\* the magnitude count, read in the adopted byte order, has its sign bit
\* set, and an epoch hint that differs from it makes parseHeader fail.
C7_EpochFromSigns ==
    HeaderAccepted =>
        /\ header.epoch = (IF SignBit(8, header.littleEndian)
                              \/ SignBit(20, header.littleEndian)
                           THEN "J2000" ELSE "B1950")
        /\ epochOpt \in {"AUTO", header.epoch}

\* C7's case: a header accepted as J2000 on the sign of the magnitude count
\* alone.
C7_Witness ==
    /\ HeaderAccepted
    /\ header.epoch = "J2000"
    /\ ~SignBit(8, header.littleEndian)
    /\ SignBit(20, header.littleEndian)

\* |v| > 10 over the integers.
ExactAbsGreater10(v) == v = INT_MIN \/ Int32Abs(v) > 10

\* C8: parseHeader fails, and nothing is written, when the magnitude count
\* exceeds 10 in absolute value in both orders under hint Auto, or in the
\* hinted order under hint Little or Big.
C8_OutOfRangeCountFails ==
    AfterParseHeader =>
        LET little == ExactAbsGreater10(Parse32(Bytes(20, 4), TRUE))
            big == ExactAbsGreater10(Parse32(Bytes(20, 4), FALSE))
        IN (\/ endianOpt = "AUTO" /\ little /\ big
            \/ endianOpt = "LITTLE" /\ little
            \/ endianOpt = "BIG" /\ big)
           => (~HeaderAccepted /\ out = <<>>)

\* C9: record output is written only after the record loop has decoded all
\* numStars records, and a run that fails has written nothing and returns a
\* non-zero status.
C9_AllOrNothing ==
    /\ (\E k \in 1..Len(out) : out[k].kind \in RecordOutputKinds)
         => (/\ pc \in {"print", "done"}
             /\ ~(i < header.numStars)
             /\ Len(decoded) = i)
    /\ pc \in {"failed", "crashed"} => (out = <<>> /\ status # 0)
    /\ pc = "failed" => err # ""

\* C9's case: a finished run that wrote two records.
C9_Witness ==
    /\ pc = "done"
    /\ status = 0
    /\ Cardinality(StarItems) >= 2
    /\ header.numStars >= 2

\* An identifier: a letter, then letters, digits and underscores.
IsIdentifier(str) ==
    /\ Len(str) >= 1
    /\ str[1] \in (65..90) \cup (97..122)
    /\ \A k \in 2..Len(str) : str[k] \in (65..90) \cup (97..122) \cup (48..57) \cup {95}

C11_ReadsInBounds ==
    (PastHeaderStage /\ header.numMagnitudes >= 1 /\ ExactRegionFits) =>
        \A k \in 1..Len(reads) :
            /\ reads[k].base = HeaderSize + (k - 1) * header.numBytesPerStar
            /\ \A r \in 1..Len(reads[k].ranges) :
                 /\ reads[k].base + reads[k].ranges[r][1] >= 0
                 /\ reads[k].base + reads[k].ranges[r][2] <= fileSize

====
